---- MODULE Spec2Model ----
(***************************************************************************)
(* Document lifecycle of anything-rag: the processed-files cache of        *)
(* RAGManager (in memory and in processed_files.json), the pending and     *)
(* processed directories of Config, the knowledge-base document table, and *)
(* the operations of RAGManager / QueryInterface that move documents       *)
(* between them.                                                           *)
(*                                                                         *)
(* Strings are sequences of one-character strings, so that basename,       *)
(* substring and suffix tests are computed and not assumed.                *)
(***************************************************************************)
EXTENDS Naturals, Integers, Sequences, FiniteSets, TLC

\* ------------------------------------------------------------------ bounds
\* How many of the file names of NameList the environment may put into the
\* pending directory.
NumNames == 2

\* How many storage operations (a save of the cache file, a rename, a copy,
\* an unlink, an rmtree) may fail in one run.
MaxFaults == 1

\* ----------------------------------------------------------------- strings
NameList ==
    << <<"a", "b">>, <<".", "h">>, <<"c", "a", "b">>, <<"b">> >>

Names == { NameList[i] : i \in 1..NumNames }

\* Config.PENDING_DIR, Config.PROCESSED_DIR and a directory that is neither.
PENDING_DIR == <<"p">>
PROCESSED_DIR == <<"d">>
OTHER_DIR == <<"o">>

\* Path / name, and str(path)
PathOf(dir, name) == dir \o <<"/">> \o name

\* index of the last occurrence of ch in s, 0 when there is none
LastIndexOf(s, ch) ==
    LET hits == { i \in DOMAIN s : s[i] = ch }
    IN  IF hits = {} THEN 0 ELSE CHOOSE i \in hits : \A j \in hits : j <= i

\* os.path.basename (POSIX) and Path.name
Basename(s) == SubSeq(s, LastIndexOf(s, "/") + 1, Len(s))

\* Path.parent as a string
Parent(s) ==
    LET i == LastIndexOf(s, "/")
    IN  IF i = 0 THEN << >> ELSE SubSeq(s, 1, i - 1)

\* sub in s
Contains(s, sub) ==
    \E i \in 0..Len(s) :
        /\ i + Len(sub) <= Len(s)
        /\ SubSeq(s, i + 1, i + Len(sub)) = sub

\* s.endswith(suf)
EndsWith(s, suf) ==
    /\ Len(suf) <= Len(s)
    /\ SubSeq(s, Len(s) - Len(suf) + 1, Len(s)) = suf

\* s.startswith('.')
StartsWithDot(s) == Len(s) > 0 /\ s[1] = "."

LowerChar(c) == IF c = "A" THEN "a" ELSE IF c = "B" THEN "b" ELSE c

\* str.lower()
Lower(s) == [i \in DOMAIN s |-> LowerChar(s[i])]

\* doc.replace('\\', '/').split('/')[-1]
CleanName(doc) ==
    Basename([i \in DOMAIN doc |-> IF doc[i] = "\\" THEN "/" ELSE doc[i]])

\* the characters of the model in code point order
Alphabet == <<".", "/", "A", "B", "\\", "a", "b", "c", "d", "h", "o", "p", "s">>

Ord(ch) == CHOOSE i \in DOMAIN Alphabet : Alphabet[i] = ch

\* a < b for Python strings
StrLess(a, b) ==
    \E i \in 1..(Len(a) + 1) :
        /\ i <= Len(b)
        /\ \A j \in 1..(i - 1) : a[j] = b[j]
        /\ (i = Len(a) + 1 \/ Ord(a[i]) < Ord(b[i]))

RECURSIVE SortedList(_)
\* sorted(a_set_of_strings)
SortedList(S) ==
    IF S = {} THEN << >>
    ELSE LET m == CHOOSE x \in S : \A y \in S \ {x} : StrLess(x, y)
         IN  <<m>> \o SortedList(S \ {m})

\* ------------------------------------------------------------------- state
\* A file outside the pending directory that exists throughout.
OtherFile == PathOf(OTHER_DIR, <<"a", "b">>)

\* The paths process_document is called with.
InputPaths == { PathOf(PENDING_DIR, n) : n \in Names } \cup { OtherFile }

\* The coroutines that call process_document: two background tasks of the
\* API server and the batch.
ApiTasks == {"api", "api2"}
Callers == ApiTasks \cup {"batch"}

VARIABLES
    pending,      \* names of the regular files in Config.PENDING_DIR
    processed,    \* names of the regular files in Config.PROCESSED_DIR
    cache,        \* RAGManager._processed_files_cache
    cacheFile,    \* CACHE_DIR / "processed_files.json"
    kb,           \* file_path fields of kv_store_full_docs.json
    calls,        \* per caller: the process_document call in flight
    batch,        \* process_pending_documents in flight
    lastReturn,   \* the process_document call that returned in the last step
    okMem,        \* identifiers of cache backed by a successful pipeline run
    okDisk,       \* the same for the identifiers of cacheFile
    ingested,     \* identifiers the pipeline has succeeded on since they
                  \* were last discarded from cache, in any session
    faults,       \* storage operations that have failed so far
    lastOp        \* the registry, cache or removal call of the last step,
                  \* with what it returned

vars ==
    << pending, processed, cache, cacheFile, kb, calls, batch, lastReturn,
       okMem, okDisk, ingested, faults, lastOp >>

\* ----------------------------------------------------- the cache file
\* processed_files.json: missing, a JSON array of identifiers, or unreadable.
NoFile == [st |-> "missing", ids |-> << >>]
CorruptFile == [st |-> "corrupt", ids |-> << >>]

RECURSIVE SetToList(_)
\* list(a_set): the elements in some order
SetToList(S) ==
    IF S = {} THEN << >>
    ELSE LET x == CHOOSE y \in S : TRUE
         IN  <<x>> \o SetToList(S \ {x})

\* set(a_list)
ListToSet(q) == { q[i] : i \in DOMAIN q }

\* _load_processed_files_cache: the set the file holds; a missing file and a
\* file json.load raises on both give the empty set
LoadCache(file) ==
    IF file.st = "ok" THEN ListToSet(file.ids) ELSE {}

\* what open(cache_file, 'w') + json.dump can do
SaveOutcomes == {"ok", "openfail", "writefail"}

\* a save that appends to what the file holds
SaveCacheAppending(file, ids, outcome) ==
    IF outcome = "ok"
    THEN [st |-> "ok",
          ids |-> (IF file.st = "ok" THEN file.ids ELSE << >>)
                  \o SetToList(ids)]
    ELSE IF outcome = "openfail" THEN file
    ELSE [st |-> "corrupt", ids |-> << >>]

\* _save_processed_files_cache: a full rewrite; a failing open leaves the
\* file as it was, a failing write leaves it truncated
SaveCache(file, ids, outcome) ==
    IF outcome = "ok" THEN [st |-> "ok", ids |-> SetToList(ids)]
    ELSE IF outcome = "openfail" THEN file
    ELSE CorruptFile

\* the identifier set read back from the file (a missing file is empty)
FileIds(file) == LoadCache(file)

\* the provenance of the identifiers a save leaves in the file
OkAfterSave(oldOk, memOk, outcome) ==
    IF outcome = "ok" THEN memOk
    ELSE IF outcome = "openfail" THEN oldOk
    ELSE {}

\* ------------------------------------------------------- the file system
\* Path.exists() for the paths of the model
ExistsIn(p, pend, proc) ==
    \/ Parent(p) = PENDING_DIR /\ Basename(p) \in pend
    \/ Parent(p) = PROCESSED_DIR /\ Basename(p) \in proc
    \/ p = OtherFile

Exists(p) == ExistsIn(p, pending, processed)

Idle == [st |-> "idle", path |-> << >>, force |-> FALSE]

\* lastReturn: the call's arguments, its result, how it ended, whether its
\* save of the cache file succeeded, and (prev) how the call before it ended
\* when that one returned in the step before, for the same path, both
\* without force_reprocess
NoReturn ==
    [path |-> << >>, force |-> FALSE, result |-> FALSE, outcome |-> "none",
     saved |-> FALSE, prev |-> "none"]

Returned(p, force, outcome, saved, prev) ==
    [path |-> p, force |-> force, result |-> (outcome = "ok"),
     outcome |-> outcome, saved |-> saved, prev |-> prev]

\* how the call that returned in the last step ended, if it was a call for
\* p without force_reprocess
JustBefore(p, force) ==
    IF ~force /\ ~lastReturn.force /\ lastReturn.path = p
    THEN lastReturn.outcome
    ELSE "none"

\* no registry, cache or removal call in the last step
NoOp == [name |-> "none"]

BatchIdle ==
    [st |-> "idle", force |-> FALSE, todo |-> {}, cur |-> << >>,
     results |-> [processed |-> 0, skipped |-> 0, failed |-> 0],
     snapshot |-> {}, cachedBefore |-> {}, seen |-> << >>]

Init ==
    /\ pending = {}
    /\ processed = {}
    /\ cacheFile = NoFile
    /\ cache = LoadCache(NoFile)
    /\ kb = {}
    /\ calls = [c \in Callers |-> Idle]
    /\ batch = BatchIdle
    /\ lastReturn = NoReturn
    /\ okMem = {}
    /\ okDisk = {}
    /\ ingested = {}
    /\ faults = 0
    /\ lastOp = NoOp

\* the storage operations of a step fail n times
Fail(n) ==
    /\ faults + n <= MaxFaults
    /\ faults' = faults + n

SaveFails(outcome) == IF outcome = "ok" THEN 0 ELSE 1

\* ------------------------------------------------------ process_document
\* the skip check without its force_reprocess test
AlreadyProcessedIgnoringForce(p, force) == p \in cache

\* line 354: the skip check
AlreadyProcessed(p, force) == ~force /\ p \in cache

\* the same without the test of line 349
BeginOutcomeNoExistsCheck(p, force) ==
    IF AlreadyProcessed(p, force) THEN "skip" ELSE "run"

\* lines 347-356, up to the await of the pipeline
BeginOutcome(p, force) ==
    IF ~Exists(p) THEN "notfound"
    ELSE IF AlreadyProcessed(p, force) THEN "skip"
    ELSE "run"

\* process_document from its call to its first return or to the await of
\* rag_anything.process_document_complete
PDBegin(c, p, force) ==
    /\ calls[c].st = "idle"
    /\ IF BeginOutcome(p, force) = "run"
       THEN /\ calls' = [calls EXCEPT ![c] =
                            [st |-> "pipeline", path |-> p, force |-> force]]
            /\ lastReturn' = NoReturn
       ELSE /\ calls' = calls
            /\ lastReturn' = Returned(p, force, BeginOutcome(p, force), FALSE,
                                      JustBefore(p, force))
    /\ lastOp' = NoOp
    /\ UNCHANGED <<pending, processed, cache, cacheFile, kb, okMem, okDisk,
                   ingested, faults>>

\* the cache with line 368 left out, and with line 368 run on a raise too
CacheNeverAdded(ids, p, pipelineOk) == ids
CacheAddedAlways(ids, p, pipelineOk) == ids \cup {p}

\* a call that writes back its own identifier alone
CacheOnlyLatest(ids, p, pipelineOk) == IF pipelineOk THEN {p} ELSE ids

\* line 368 (and the except of line 378): the cache after a pipeline run
CacheAfterPipeline(ids, p, pipelineOk) ==
    IF pipelineOk THEN ids \cup {p} ELSE ids

\* a call that never renames
MovesFileNever(p) == FALSE

\* lines 372-373 and Config.mark_file_as_processed: does the call rename
MovesFile(p) ==
    /\ Parent(p) = PENDING_DIR
    /\ Exists(p)

\* the knowledge-base table after a pipeline run: a successful run records
\* the file under its name
KbAfterPipeline(table, p, pipelineOk) ==
    IF pipelineOk THEN table \cup {Basename(p)} ELSE table

\* a call that swallows a failing rename
ReturnOutcomeRenameSwallowed(p, pipelineOk, renameOk) ==
    IF ~pipelineOk THEN "raised" ELSE "ok"

\* lines 367-380: what a call returns once its pipeline run is over
ReturnOutcome(p, pipelineOk, renameOk) ==
    IF ~pipelineOk THEN "raised"
    ELSE IF MovesFile(p) /\ ~renameOk THEN "renamefail"
    ELSE "ok"

\* process_document from the return of the pipeline to its return
PDReturn(c, pipelineOk, saveOutcome, renameOk) ==
    LET p == calls[c].path
        force == calls[c].force
        out == ReturnOutcome(p, pipelineOk, renameOk)
    IN
    /\ calls[c].st = "pipeline"
    /\ calls' = [calls EXCEPT ![c] = Idle]
    /\ lastOp' = NoOp
    /\ kb' = KbAfterPipeline(kb, p, pipelineOk)
    /\ cache' = CacheAfterPipeline(cache, p, pipelineOk)
    /\ lastReturn' = Returned(p, force, out,
                              pipelineOk /\ saveOutcome = "ok", "none")
    /\ IF ~pipelineOk
       THEN /\ saveOutcome = "ok" /\ renameOk
            /\ UNCHANGED <<okMem, cacheFile, okDisk, ingested, pending,
                           processed, faults>>
       ELSE /\ okMem' = okMem \cup {p}
            /\ ingested' = ingested \cup {p}
            /\ cacheFile' = SaveCache(cacheFile, cache', saveOutcome)
            /\ okDisk' = OkAfterSave(okDisk, okMem', saveOutcome)
            /\ renameOk \/ MovesFile(p)
            /\ Fail(SaveFails(saveOutcome) + (IF renameOk THEN 0 ELSE 1))
            /\ IF out = "ok" /\ MovesFile(p)
               THEN /\ pending' = pending \ {Basename(p)}
                    /\ processed' = processed \cup {Basename(p)}
               ELSE UNCHANGED <<pending, processed>>

\* The operations are coroutines of one event loop: while the batch runs
\* between two awaits of the pipeline no other coroutine runs.
EventLoopFree == ~(batch.st = "running" /\ calls["batch"].st = "idle")

\* The counts a batch returned are held for the step of its return only.
Settle(b) == IF b.st = "done" THEN BatchIdle ELSE b

\* QueryInterface.add_document, as the API's background task runs it
AddDocumentBegin(c) ==
    \E p \in InputPaths, force \in BOOLEAN :
        /\ EventLoopFree
        /\ PDBegin(c, p, force)
        /\ batch' = Settle(batch)

AddDocumentReturn(c) ==
    \E pipelineOk \in BOOLEAN, saveOutcome \in SaveOutcomes,
       renameOk \in BOOLEAN :
        /\ EventLoopFree
        /\ PDReturn(c, pipelineOk, saveOutcome, renameOk)
        /\ batch' = Settle(batch)

\* A file is written into the pending directory (by /upload or by hand).
Upload ==
    \E n \in Names :
        /\ pending' = pending \cup {n}
        /\ lastReturn' = NoReturn
        /\ lastOp' = NoOp
        /\ batch' = Settle(batch)
        /\ UNCHANGED <<processed, cache, cacheFile, kb, calls, okMem, okDisk,
                       ingested, faults>>

\* ---------------------------------------------- process_pending_documents
\* A directory inside the pending directory: glob("*") lists it, is_file()
\* is false for it.
PendingSubdirs == { <<"s">> }

\* PENDING_DIR.glob("*")
GlobPending == pending \cup PendingSubdirs

\* a loop without the is_file() test
IsFileAlways(n) == TRUE

\* file_path.is_file()
IsFile(n) == n \in pending

\* lines 402-408: the count a call's result goes to
Classify(success, p, ids) ==
    IF success THEN "processed"
    ELSE IF p \in ids THEN "skipped"
    ELSE "failed"

Bump(results, k) == [results EXCEPT ![k] = @ + 1]

\* lines 392-397: the snapshot; an empty one returns at once
ProcessPendingStart ==
    \E force \in BOOLEAN :
        /\ EventLoopFree
        /\ batch.st # "running"
        /\ batch' =
              [st |-> IF GlobPending = {} THEN "done" ELSE "running",
               force |-> force,
               todo |-> GlobPending,
               cur |-> << >>,
               results |-> [processed |-> 0, skipped |-> 0, failed |-> 0],
               snapshot |-> pending,
               cachedBefore |->
                   { n \in pending : PathOf(PENDING_DIR, n) \in cache },
               seen |-> << >>]
        /\ lastReturn' = NoReturn
        /\ lastOp' = NoOp
        /\ UNCHANGED <<pending, processed, cache, cacheFile, kb, calls,
                       okMem, okDisk, ingested, faults>>

\* what the loop has done with one entry, for the record of the batch: how
\* its process_document call ended ("notfile" when is_file() was false and
\* nothing was called) and the count it went to
Seen(n, outcome, count) == [name |-> n, outcome |-> outcome, count |-> count]

\* the entry of the snapshot the loop takes next (the entries are taken in
\* the order of their names)
NextEntry(todo) == Head(SortedList(todo))

\* lines 399-401: the next entry of the snapshot, up to the return of
\* process_document or to its await of the pipeline
ProcessPendingNext ==
    /\ batch.st = "running"
    /\ calls["batch"].st = "idle"
    /\ batch.todo # {}
    /\ LET n == NextEntry(batch.todo)
           p == PathOf(PENDING_DIR, n)
       IN
        IF ~IsFile(n)
        THEN /\ batch' = [batch EXCEPT
                            !.todo = @ \ {n},
                            !.seen = Append(@, Seen(n, "notfile", "none"))]
             /\ lastReturn' = NoReturn
             /\ lastOp' = NoOp
             /\ UNCHANGED <<pending, processed, cache, cacheFile, kb,
                            calls, okMem, okDisk, ingested, faults>>
        ELSE /\ PDBegin("batch", p, batch.force)
             /\ IF calls'["batch"].st = "pipeline"
                THEN batch' = [batch EXCEPT !.todo = @ \ {n}, !.cur = n]
                ELSE LET k == Classify(lastReturn'.result, p, cache') IN
                     batch' = [batch EXCEPT
                                 !.todo = @ \ {n},
                                 !.results = Bump(@, k),
                                 !.seen = Append(@,
                                     Seen(n, lastReturn'.outcome, k))]

\* lines 401-408: the pipeline returns to the batch's process_document
ProcessPendingReturn ==
    \E pipelineOk \in BOOLEAN, saveOutcome \in SaveOutcomes,
       renameOk \in BOOLEAN :
        LET p == calls["batch"].path IN
        /\ batch.st = "running"
        /\ PDReturn("batch", pipelineOk, saveOutcome, renameOk)
        /\ LET k == Classify(lastReturn'.result, p, cache') IN
           batch' = [batch EXCEPT
                       !.cur = << >>,
                       !.results = Bump(@, k),
                       !.seen = Append(@,
                           Seen(batch.cur, lastReturn'.outcome, k))]

\* lines 410-411: the loop is over, the counts are returned
ProcessPendingEnd ==
    /\ batch.st = "running"
    /\ calls["batch"].st = "idle"
    /\ batch.todo = {}
    /\ batch' = [batch EXCEPT !.st = "done"]
    /\ lastReturn' = NoReturn
    /\ lastOp' = NoOp
    /\ UNCHANGED <<pending, processed, cache, cacheFile, kb, calls,
                   okMem, okDisk, ingested, faults>>

\* ------------------------------------------------- the registry's name list
\* lines 383-392: the names the cache contributes
CacheNames(ids) ==
    { IF Basename(id) # << >> /\ Basename(id) # id THEN Basename(id) ELSE id :
        id \in { x \in ids : x # << >> } }

\* lines 394-398: the names the processed directory contributes
DirNames(dir) == { n \in dir : ~StartsWithDot(n) }

\* lines 400-416: the names the knowledge-base table contributes
KbNames(table) == { Basename(fp) : fp \in table }

\* line 425: the names that are kept
ValidName(n) == n # << >> /\ ~StartsWithDot(n) /\ Len(n) > 1

\* _get_processed_documents_list
ListNames(ids, dir, table) ==
    LET all == CacheNames(ids) \cup DirNames(dir) \cup KbNames(table)
        clean == { CleanName(d) : d \in { x \in all : x # << >> } }
    IN  SortedList({ n \in clean : ValidName(n) })

\* the identifiers themselves, os.path.basename left out
CacheDocsWholeIds(ids) == { x \in ids : x # << >> }

\* lines 226-232: the names the cache contributes to the descriptors
CacheDocs(ids) == { Basename(id) : id \in { x \in ids : x # << >> } }

\* line 265: the names that get a descriptor
DescribedName(n) == n # << >> /\ Len(n) > 1 /\ ~StartsWithDot(n)

\* _get_detailed_documents_info: the descriptor of each name (the size and
\* the date, which come from stat(), are left out)
DetailedInfo(ids, dir, table) ==
    LET cacheDocs == CacheDocs(ids)
        processedDocs == DirNames(dir)
        kbDocs == KbNames(table)
        all == cacheDocs \cup processedDocs \cup kbDocs
    IN  [n \in { d \in all : DescribedName(d) } |->
            [in_cache |-> n \in cacheDocs,
             in_processed_dir |-> n \in processedDocs,
             in_knowledge_base |-> n \in kbDocs]]

\* a registry call that also rewrites the cache file
ListNamesCallSaving ==
    /\ EventLoopFree
    /\ lastOp' = [name |-> "listNames",
                  result |-> ListNames(cache, processed, kb)]
    /\ lastReturn' = NoReturn
    /\ batch' = Settle(batch)
    /\ cacheFile' = SaveCache(cacheFile, cache, "ok")
    /\ okDisk' = okMem
    /\ UNCHANGED <<pending, processed, cache, kb, calls, okMem, ingested,
                   faults>>

\* a call of _get_processed_documents_list
ListNamesCall ==
    /\ EventLoopFree
    /\ lastOp' = [name |-> "listNames",
                  result |-> ListNames(cache, processed, kb)]
    /\ lastReturn' = NoReturn
    /\ batch' = Settle(batch)
    /\ UNCHANGED <<pending, processed, cache, cacheFile, kb, calls, okMem,
                   okDisk, ingested, faults>>

\* a call of _get_detailed_documents_info
ListDocumentsCall ==
    /\ EventLoopFree
    /\ lastOp' = [name |-> "listDocuments",
                  result |-> DetailedInfo(cache, processed, kb)]
    /\ lastReturn' = NoReturn
    /\ batch' = Settle(batch)
    /\ UNCHANGED <<pending, processed, cache, cacheFile, kb, calls, okMem,
                   okDisk, ingested, faults>>

\* ------------------------------------------------------------- removal
\* the stores a removal works on
Stores ==
    [cache |-> cache, cacheFile |-> cacheFile, okMem |-> okMem,
     okDisk |-> okDisk, ingested |-> ingested, pending |-> pending,
     processed |-> processed]

\* a removal that discards the identifier equal to doc_name only
MatchesDocExact(id, doc) == id = doc

\* line 442: the identifiers a removal of doc_name discards
MatchesDoc(id, doc) == Contains(id, doc) \/ EndsWith(id, doc)

\* _remove_document_from_storage on the stores st; the rename raises for
\* the names of renameFails
RemoveFromStorage(st, doc, saveOutcome, renameFails) ==
    LET gone == { id \in st.cache : MatchesDoc(id, doc) }
        kept == st.cache \ gone
        keptOk == st.okMem \ gone
        saved == [st EXCEPT
                    !.cache = kept,
                    !.okMem = keptOk,
                    !.ingested = @ \ gone,
                    !.cacheFile = SaveCache(st.cacheFile, kept, saveOutcome),
                    !.okDisk = OkAfterSave(st.okDisk, keptOk, saveOutcome)]
    IN  IF doc \in st.processed /\ doc \notin renameFails
        THEN [saved EXCEPT !.processed = @ \ {doc},
                           !.pending = @ \cup {doc}]
        ELSE saved

RECURSIVE RemoveEach(_, _, _, _)
\* the loop over the selected names
RemoveEach(st, docs, saveOutcome, renameFails) ==
    IF docs = << >> THEN st
    ELSE RemoveEach(RemoveFromStorage(st, Head(docs), saveOutcome, renameFails),
                    Tail(docs), saveOutcome, renameFails)

SetStores(st) ==
    /\ cache' = st.cache
    /\ cacheFile' = st.cacheFile
    /\ okMem' = st.okMem
    /\ okDisk' = st.okDisk
    /\ ingested' = st.ingested
    /\ pending' = st.pending
    /\ processed' = st.processed

\* what the user asks to remove, and what is typed at the prompt
Identifiers == Names \cup { <<"A", "B">>, <<"b">>, <<"o", "o">> }
Choices == {"all", "first", "last", "bad"}

\* line 65: the names the identifier selects
Matches(docs, ident) ==
    SelectSeq(docs, LAMBDA d : Contains(Lower(d), Lower(ident)))

\* lines 74-90: the names that are removed, << >> when the call returns False
Selected(matches, choice) ==
    IF Len(matches) <= 1 THEN matches
    ELSE IF choice = "all" THEN matches
    ELSE IF choice = "first" THEN <<matches[1]>>
    ELSE IF choice = "last" THEN <<matches[Len(matches)]>>
    ELSE << >>

\* the renames a removal of the names sel attempts
Renamed(sel, dir) == ListToSet(sel) \cap dir

\* what remove_document did: the names its identifier matched, the names
\* it removed, what it returned (lines 68-72, 87-89, 100) and whether every
\* storage operation of it succeeded (clean); RemovalAlwaysTrue is the same
\* with line 72 returning True
RemovalAlwaysTrue(matches, sel, clean) ==
    [name |-> "removeDocument", matches |-> matches, sel |-> sel,
     result |-> TRUE, clean |-> clean]

Removal(matches, sel, clean) ==
    [name |-> "removeDocument", matches |-> matches, sel |-> sel,
     result |-> (sel # << >>), clean |-> clean]

\* lines 92-100: the selected names are removed one after the other
RemoveSelected(matches, sel, saveOutcome, renameFails) ==
    /\ EventLoopFree
    /\ Fail(SaveFails(saveOutcome) + Cardinality(renameFails))
    /\ renameFails \subseteq Renamed(sel, processed)
    /\ sel = << >> => saveOutcome = "ok"
    /\ SetStores(RemoveEach(Stores, sel, saveOutcome, renameFails))
    /\ lastReturn' = NoReturn
    /\ lastOp' = Removal(matches, sel,
                         saveOutcome = "ok" /\ renameFails = {})
    /\ batch' = Settle(batch)
    /\ UNCHANGED <<kb, calls>>

\* QueryInterface.remove_document
RemoveDocumentOp(ident, choice, saveOutcome, renameFails) ==
    LET matches == Matches(ListNames(cache, processed, kb), ident) IN
    RemoveSelected(matches, Selected(matches, choice), saveOutcome,
                   renameFails)

\* the matches and selections the requests of the model lead to
Selections(docs) ==
    { <<Matches(docs, ident), Selected(Matches(docs, ident), choice)>> :
        ident \in Identifiers, choice \in Choices }

RemoveDocument ==
    \E ms \in Selections(ListNames(cache, processed, kb)),
       saveOutcome \in SaveOutcomes, renameFails \in SUBSET processed :
        RemoveSelected(ms[1], ms[2], saveOutcome, renameFails)

\* lines 488-494 of _clear_storage_directories: the loop copies the files
\* of fault.moved to pending and unlinks them; it then ends (fault.at is
\* "none") or raises on the file fault.bad, before the copy ("write") or
\* between the copy and the unlink ("unlink")
ClearFaults(dir) ==
    { [moved |-> dir, bad |-> << >>, at |-> "none"] } \cup
    { [moved |-> m, bad |-> b, at |-> a] :
        m \in SUBSET dir, b \in dir, a \in {"write", "unlink"} }

MoveBack(st, fault) ==
    [st EXCEPT
        !.pending = @ \cup fault.moved \cup
                    (IF fault.at = "unlink" THEN {fault.bad} ELSE {}),
        !.processed = @ \ fault.moved]

\* _clear_storage_directories; a raising rmtree skips everything after it
ClearStorage(st, rmtreeOk, fault) ==
    IF ~rmtreeOk THEN st
    ELSE MoveBack([st EXCEPT !.cacheFile = NoFile, !.okDisk = {}], fault)

\* how many storage operations of a reset fail
ResetFails(saveOutcome, renameFails, rmtreeOk, fault) ==
    SaveFails(saveOutcome) + Cardinality(renameFails)
    + (IF rmtreeOk THEN 0 ELSE 1) + (IF fault.at = "none" THEN 0 ELSE 1)

\* what remove_all_documents did: whether it was confirmed at the prompt,
\* what it returned (lines 116, 127, 141) and whether rmtree succeeded
Reset(confirmed, result, rmtreeOk) ==
    [name |-> "removeAll", confirmed |-> confirmed, result |-> result,
     rmtreeOk |-> rmtreeOk]

\* QueryInterface.remove_all_documents, confirmed at the prompt
RemoveAllOp(saveOutcome, renameFails, rmtreeOk, fault) ==
    LET docs == ListNames(cache, processed, kb)
        removed == RemoveEach(Stores, docs, saveOutcome, renameFails)
    IN
    /\ EventLoopFree
    /\ Fail(ResetFails(saveOutcome, renameFails, rmtreeOk, fault))
    /\ rmtreeOk \/ fault.at = "none"
    /\ fault.at # "none" => fault.bad \notin fault.moved
    /\ docs # << >>
    /\ renameFails \subseteq Renamed(docs, processed)
    /\ fault \in ClearFaults(removed.processed)
    /\ SetStores(ClearStorage(removed, rmtreeOk, fault))
    /\ kb' = IF rmtreeOk THEN {} ELSE kb
    /\ lastReturn' = NoReturn
    /\ lastOp' = Reset(TRUE, TRUE, rmtreeOk)
    /\ batch' = Settle(batch)
    /\ UNCHANGED calls

\* remove_all_documents with nothing listed (lines 114-116) or not
\* confirmed (lines 124-127)
RemoveAllNoop ==
    /\ EventLoopFree
    /\ lastReturn' = NoReturn
    /\ lastOp' = Reset(FALSE, ListNames(cache, processed, kb) = << >>, TRUE)
    /\ batch' = Settle(batch)
    /\ UNCHANGED <<pending, processed, cache, cacheFile, kb, calls,
                   okMem, okDisk, ingested, faults>>

RemoveAll ==
    \E saveOutcome \in SaveOutcomes, renameFails \in SUBSET processed,
       rmtreeOk \in BOOLEAN :
        \E fault \in ClearFaults(processed) :
            RemoveAllOp(saveOutcome, renameFails, rmtreeOk, fault)

\* ------------------------------------------------------------- restart
\* The process ends and a new one runs RAGManager.initialize.
Restart ==
    /\ cache' = LoadCache(cacheFile)
    /\ okMem' = okDisk
    /\ calls' = [c \in Callers |-> Idle]
    /\ batch' = BatchIdle
    /\ lastReturn' = NoReturn
    /\ lastOp' = [name |-> "load", afterSave |-> FALSE]
    /\ UNCHANGED <<pending, processed, cacheFile, kb, okDisk, ingested,
                   faults>>

\* The command line and the API server with one background task: single
\* documents, uploads, removals, restarts.
Next ==
    \/ AddDocumentBegin("api")
    \/ AddDocumentReturn("api")
    \/ Upload
    \/ RemoveDocument
    \/ RemoveAll
    \/ RemoveAllNoop
    \/ Restart

Spec == Init /\ [][Next]_vars

\* The batch beside one background task, with uploads and restarts. (The
\* removals are left to Spec: to the pending directory they do what Upload
\* does, they put a file into it.)
NextBatch ==
    \/ AddDocumentBegin("api")
    \/ AddDocumentReturn("api")
    \/ Upload
    \/ ProcessPendingStart
    \/ ProcessPendingNext
    \/ ProcessPendingReturn
    \/ ProcessPendingEnd
    \/ Restart

SpecBatch == Init /\ [][NextBatch]_vars

\* Two background tasks of the API server side by side.
NextConc ==
    \/ \E c \in ApiTasks : AddDocumentBegin(c)
    \/ \E c \in ApiTasks : AddDocumentReturn(c)
    \/ Upload
    \/ RemoveDocument
    \/ RemoveAll
    \/ RemoveAllNoop
    \/ Restart

SpecConc == Init /\ [][NextConc]_vars

\* Two background tasks of the API server side by side, with uploads and
\* nothing else: the interleavings of process_document calls.
NextPair ==
    \/ \E c \in ApiTasks : AddDocumentBegin(c)
    \/ \E c \in ApiTasks : AddDocumentReturn(c)
    \/ Upload

SpecPair == Init /\ [][NextPair]_vars

\* ------------------------------------------------- the stores as given
\* Identifiers, file names and file_path values the stores may hold when
\* a session starts: paths of the pending directory, a bare name, a hidden
\* name, a name inside another name, a path written with backslashes and
\* in upper case, a name of one character.
IdPool ==
    { PathOf(PENDING_DIR, <<"a", "b">>), PathOf(PENDING_DIR, <<"c", "a", "b">>),
      <<"a", "b">> }
DirPool == { <<"a", "b">>, <<"c", "a", "b">>, <<".", "h">> }
KbPool == { <<"c", "\\", "A", "B">>, PathOf(OTHER_DIR, <<"b">>) }

\* a call of _save_processed_files_cache alone
SaveCall ==
    \E outcome \in SaveOutcomes :
        /\ Fail(SaveFails(outcome))
        /\ cacheFile' = SaveCache(cacheFile, cache, outcome)
        /\ okDisk' = OkAfterSave(okDisk, okMem, outcome)
        /\ lastOp' = [name |-> "save", outcome |-> outcome]
        /\ lastReturn' = NoReturn
        /\ UNCHANGED <<pending, processed, cache, kb, calls, batch, okMem,
                       ingested>>

\* a call of _load_processed_files_cache alone
LoadCall ==
    /\ cache' = LoadCache(cacheFile)
    /\ okMem' = okDisk
    /\ lastOp' = [name |-> "load",
                  afterSave |-> (lastOp.name = "save" /\ lastOp.outcome = "ok")]
    /\ lastReturn' = NoReturn
    /\ UNCHANGED <<pending, processed, cacheFile, kb, calls, batch, okDisk,
                   ingested, faults>>

\* lines 368-369 alone: an identifier is added and the cache is saved
AddCall ==
    \E id \in IdPool, outcome \in SaveOutcomes :
        /\ Fail(SaveFails(outcome))
        /\ cache' = cache \cup {id}
        /\ okMem' = okMem \cup {id}
        /\ ingested' = ingested \cup {id}
        /\ cacheFile' = SaveCache(cacheFile, cache', outcome)
        /\ okDisk' = OkAfterSave(okDisk, okMem', outcome)
        /\ lastOp' = [name |-> "add", outcome |-> outcome, id |-> id]
        /\ lastReturn' = NoReturn
        /\ UNCHANGED <<pending, processed, kb, calls, batch>>

\* A session starts on stores that earlier sessions (and the user, in the
\* directories) have left behind.
InitStores ==
    /\ pending = {}
    /\ processed \in SUBSET DirPool
    /\ cache \in SUBSET IdPool
    /\ cacheFile \in { NoFile, SaveCache(NoFile, cache, "ok"),
                       SaveCache(NoFile, IdPool, "ok") }
    /\ kb \in SUBSET KbPool
    /\ calls = [c \in Callers |-> Idle]
    /\ batch = BatchIdle
    /\ lastReturn = NoReturn
    /\ okMem = cache
    /\ okDisk = FileIds(cacheFile)
    /\ ingested = cache
    /\ faults = 0
    /\ lastOp = NoOp

\* The registry, the cache file and the removal of one document on such
\* stores.
NextStores ==
    \/ ListDocumentsCall
    \/ ListNamesCall
    \/ SaveCall
    \/ LoadCall
    \/ AddCall
    \/ RemoveDocument

SpecStores == InitStores /\ [][NextStores]_vars

\* ------------------------------------------------------------ the steps
\* In this step caller c calls process_document(p, force): the call enters
\* the pipeline or returns at once.
Entered(c, p, force) ==
    /\ calls[c].st = "idle"
    /\ calls'[c] = [st |-> "pipeline", path |-> p, force |-> force]

ReturnedAtOnce(p, force) ==
    /\ lastReturn' # lastReturn
    /\ lastReturn'.outcome \in {"notfound", "skip"}
    /\ lastReturn'.path = p
    /\ lastReturn'.force = force
    /\ calls' = calls

Called(c, p, force) == Entered(c, p, force) \/ ReturnedAtOnce(p, force)

\* In this step the pipeline run of caller c is over and its call returns.
PipelineOver(c) ==
    /\ calls[c].st = "pipeline"
    /\ calls'[c].st = "idle"
    /\ lastReturn'.outcome \in {"raised", "ok", "renamefail"}

\* ------------------------------------------------------------------- C1
\* C1 as stated, for a file that is there at the first call: when
\* process_document(p) is called twice in a row without force_reprocess
\* and with no other operation in between, the pipeline is invoked at most
\* once in total, and the second call returns False and is counted as
\* skipped (p is in the cache when it returns).
C1_TwiceInvokesOnce ==
    [][\A c \in ApiTasks, p \in InputPaths :
        (JustBefore(p, FALSE) \notin {"none", "notfound"}
         /\ Called(c, p, FALSE))
        => /\ ~(JustBefore(p, FALSE) \in {"raised", "ok", "renamefail"}
                /\ Entered(c, p, FALSE))
           /\ ReturnedAtOnce(p, FALSE)
           /\ ~lastReturn'.result
           /\ Classify(lastReturn'.result, p, cache') = "skipped"]_vars

\* C1 as amended: the same, for a first call whose pipeline run succeeded
\* or which was itself skipped; the second call then does not invoke the
\* pipeline, returns False and is counted as skipped.
C1_SecondCallSkipped ==
    [][\A c \in ApiTasks, p \in InputPaths :
        (JustBefore(p, FALSE) \in {"ok", "renamefail", "skip"}
         /\ Called(c, p, FALSE))
        => /\ ~Entered(c, p, FALSE)
           /\ ReturnedAtOnce(p, FALSE)
           /\ ~lastReturn'.result
           /\ Classify(lastReturn'.result, p, cache') = "skipped"]_vars

\* The second of two calls in a row has returned, after a first call whose
\* pipeline run succeeded.
C1_Witness ==
    /\ lastReturn.prev \in {"ok", "renamefail"}
    /\ lastReturn.outcome \in {"skip", "notfound"}

\* ------------------------------------------------------------------- C2
\* C2: process_document(p, force) invokes the pipeline if and only if the
\* file exists and (force is set or p is not in the cache); when p is
\* cached and force is not set the call returns False and leaves the cache,
\* the cache file and the two directories as they were.
C2_InvokesIffNeeded ==
    [][\A c \in ApiTasks, p \in InputPaths, force \in BOOLEAN :
        Called(c, p, force)
        => /\ Entered(c, p, force) <=> (Exists(p) /\ (force \/ p \notin cache))
           /\ (p \in cache /\ ~force)
              => /\ ~lastReturn'.result
                 /\ UNCHANGED <<cache, cacheFile, pending, processed>>]_vars

\* A call for a cached path whose file is there has been skipped.
C2_Witness ==
    /\ lastReturn.outcome = "skip"
    /\ lastReturn.path \in cache
    /\ Exists(lastReturn.path)

\* ------------------------------------------------------------------- C3
\* C3 as stated: when the pipeline raises, the call returns False, the
\* cache is as it was (p is not added), no file has moved, and a call for p
\* without force_reprocess that follows invokes the pipeline again.
C3_RaiseThenRetry ==
    [][\A c \in ApiTasks, p \in InputPaths :
        /\ (PipelineOver(c) /\ lastReturn'.outcome = "raised")
           => /\ ~lastReturn'.result
              /\ UNCHANGED <<cache, cacheFile, pending, processed>>
        /\ (lastReturn.outcome = "raised" /\ lastReturn.path = p
            /\ Called(c, p, FALSE))
           => Entered(c, p, FALSE)]_vars

\* C3 as amended: the call that follows invokes the pipeline again when p
\* is not in the cache and the file is still there.
C3_RaiseLeavesUncached ==
    [][\A c \in ApiTasks, p \in InputPaths :
        /\ (PipelineOver(c) /\ lastReturn'.outcome = "raised")
           => /\ ~lastReturn'.result
              /\ UNCHANGED <<cache, cacheFile, pending, processed>>
        /\ (lastReturn.outcome = "raised" /\ lastReturn.path = p
            /\ p \notin cache /\ Exists(p) /\ Called(c, p, FALSE))
           => Entered(c, p, FALSE)]_vars

\* The pipeline has raised for a path that is not cached and whose file is
\* still there.
C3_Witness ==
    /\ lastReturn.outcome = "raised"
    /\ lastReturn.path \notin cache
    /\ Exists(lastReturn.path)

\* ------------------------------------------------------------------- C4
\* C4 as stated: when process_document(p) returns True for a p of the
\* pending directory, p is in the cache and in the cache file, a file of
\* p's name is in the processed directory and none is in the pending
\* directory; for a p outside the pending directory no file moves.
C4_TrueMeansCachedPersistedMoved ==
    [][\A c \in ApiTasks :
        (PipelineOver(c) /\ lastReturn'.result)
        => LET p == lastReturn'.path IN
           /\ p \in cache'
           /\ p \in FileIds(cacheFile')
           /\ Parent(p) = PENDING_DIR
              => /\ Basename(p) \in processed'
                 /\ Basename(p) \notin pending'
           /\ Parent(p) # PENDING_DIR
              => /\ UNCHANGED <<pending, processed>>
                 /\ ExistsIn(p, pending', processed')]_vars

\* C4 as amended: p is in the cache file when the write of the cache file
\* succeeded.
C4_TrueMeansCachedMoved ==
    [][\A c \in ApiTasks :
        (PipelineOver(c) /\ lastReturn'.result)
        => LET p == lastReturn'.path IN
           /\ p \in cache'
           /\ lastReturn'.saved => p \in FileIds(cacheFile')
           /\ Parent(p) = PENDING_DIR
              => /\ Basename(p) \in processed'
                 /\ Basename(p) \notin pending'
           /\ Parent(p) # PENDING_DIR
              => /\ UNCHANGED <<pending, processed>>
                 /\ ExistsIn(p, pending', processed')]_vars

\* A call for a file of the pending directory has returned True.
C4_Witness ==
    /\ lastReturn.result
    /\ Parent(lastReturn.path) = PENDING_DIR
    /\ lastReturn.saved
    /\ Basename(lastReturn.path) \in processed

\* ------------------------------------------------------------------- C5
\* C5: process_document(p) for a p that is no file returns False without
\* invoking the pipeline, and the cache, the cache file and the two
\* directories are as they were.
C5_NotFoundChangesNothing ==
    [][\A c \in ApiTasks, p \in InputPaths, force \in BOOLEAN :
        (Called(c, p, force) /\ ~Exists(p))
        => /\ ~Entered(c, p, force)
           /\ ~lastReturn'.result
           /\ lastReturn'.outcome = "notfound"
           /\ UNCHANGED <<cache, cacheFile, pending, processed, kb>>]_vars

\* A call for a cached path that is no file has returned.
C5_Witness ==
    /\ lastReturn.outcome = "notfound"
    /\ lastReturn.path \in cache
    /\ ~Exists(lastReturn.path)

\* ---------------------------------------------------------- the batch
\* the entries of the record that ended in one of the outcomes
SeenWith(outcomes) ==
    { i \in DOMAIN batch.seen : batch.seen[i].outcome \in outcomes }

\* the names process_document was called with, in the order of the calls
CalledFor == SelectSeq(batch.seen, LAMBDA e : e.outcome # "notfile")

\* ------------------------------------------------------------------- C6
\* C6: when process_pending_documents without force_reprocess returns,
\* processed is the number of files the pipeline succeeded on, skipped the
\* number of files of the snapshot whose path was cached before the batch,
\* failed the number of files the pipeline raised on, and the three add up
\* to the number of regular files of the snapshot.
C6_BatchCounts ==
    (batch.st = "done" /\ ~batch.force)
    => /\ batch.results.processed = Cardinality(SeenWith({"ok", "renamefail"}))
       /\ batch.results.skipped = Cardinality(batch.cachedBefore)
       /\ batch.results.failed = Cardinality(SeenWith({"raised"}))
       /\ batch.results.processed + batch.results.skipped
          + batch.results.failed = Cardinality(batch.snapshot)

\* ------------------------------------------------------------------- C7
\* C7: for both values of force_reprocess, a file is counted as skipped only
\* if the pipeline was not invoked for it in this batch, and every file
\* whose call returned False after the pipeline was invoked (it raised, or
\* the rename failed) is counted as failed.
C7_SkipIsNotFailure ==
    \A i \in DOMAIN batch.seen :
        LET e == batch.seen[i] IN
        /\ e.count = "skipped" => e.outcome \in {"skip", "notfound"}
        /\ e.outcome \in {"raised", "renamefail"} => e.count = "failed"

\* ------------------------------------------------------------------- C8
\* C8 as stated: when the batch returns, process_document has been called
\* exactly once for each regular file of the snapshot and for nothing else.
C8_EachSnapshotFileOnce ==
    batch.st = "done"
    => /\ Len(CalledFor) = Cardinality(batch.snapshot)
       /\ { CalledFor[i].name : i \in DOMAIN CalledFor } = batch.snapshot

\* the batch has a step to take
BatchCanStep ==
    \/ calls["batch"].st = "pipeline"
    \/ ENABLED ProcessPendingNext
    \/ ENABLED ProcessPendingEnd

\* C8 as amended: process_document is called exactly once, one call after
\* the other, for each entry of the snapshot that is a regular file when
\* the loop reaches it, and for nothing else: each entry of the snapshot is
\* taken once, whatever the calls before it returned, a file that came into
\* the pending directory after the snapshot is never taken, and the loop
\* ends, every step of it taking one entry off the ones still to do.
C8_EachEntryOnce ==
    /\ [](batch.st \in {"running", "done"} =>
            /\ \A i, j \in DOMAIN batch.seen :
                   batch.seen[i].name = batch.seen[j].name => i = j
            /\ \A i \in DOMAIN CalledFor : CalledFor[i].name \in batch.snapshot
            /\ Len(batch.seen) + Cardinality(batch.todo)
               + (IF calls["batch"].st = "pipeline" THEN 1 ELSE 0)
               = Cardinality(batch.snapshot \cup PendingSubdirs)
            /\ batch.st = "done" => batch.todo = {}
            /\ batch.st = "running" => BatchCanStep)
    /\ [][(batch.st = "running" /\ batch'.st = "running")
           => /\ batch'.todo \subseteq batch.todo
              /\ batch'.snapshot = batch.snapshot
              /\ (calls["batch"].st = "idle" /\ batch' # batch)
                 => /\ Cardinality(batch'.todo) = Cardinality(batch.todo) - 1
                    /\ LET n == NextEntry(batch.todo) IN
                       \/ /\ IsFile(n)
                          /\ Called("batch", PathOf(PENDING_DIR, n),
                                    batch.force)
                       \/ /\ ~IsFile(n)
                          /\ calls' = calls
                          /\ lastReturn' = NoReturn]_vars

\* A batch has returned after it left out a file of its snapshot that was
\* moved away while it waited for the pipeline.
C8_Witness ==
    /\ batch.st = "done"
    /\ \E i \in DOMAIN batch.seen :
          /\ batch.seen[i].outcome = "notfile"
          /\ batch.seen[i].name \in batch.snapshot
    /\ \E i \in DOMAIN batch.seen : batch.seen[i].outcome = "raised"

\* ------------------------------------------------------------------- C9
\* C9 as stated: in every reachable state every identifier of the cache is
\* a path the pipeline has succeeded on, in this or an earlier session,
\* since the identifier was last removed from the cache.
C9_CachedSinceLastRemoval == cache \subseteq ingested

\* C9 as amended: every identifier of the cache in memory is backed by a
\* successful pipeline run since it was last discarded from the cache in
\* memory or, when it was loaded at start-up, since it last left the cache
\* file; every identifier of the cache file is backed by a successful
\* pipeline run since it last left the file. No operation puts an
\* identifier into either without such a run.
C9_CachedMeansIngested ==
    /\ cache \subseteq okMem
    /\ FileIds(cacheFile) \subseteq okDisk

\* An identifier is in the cache, in memory and in the file, after a
\* removal and a restart.
C9_Witness ==
    /\ cache # {}
    /\ cache = FileIds(cacheFile)
    /\ ingested # okMem

\* ------------------------------------------------------------------ C10
\* In this step an operation that changes the cache completes and none of
\* its storage operations fails.
CacheMutationDone ==
    /\ cache' # cache
    /\ faults' = faults
    /\ calls' = calls \/ \E c \in Callers : PipelineOver(c)

\* C10: whenever an operation that changes the cache (a successful
\* process_document, remove_document, remove_all_documents) has completed
\* and its storage writes succeeded, the identifiers of the cache file (none
\* when the file is missing) are those of the cache in memory.
C10_PersistedAfterMutation ==
    [][CacheMutationDone => FileIds(cacheFile') = cache']_vars

\* ------------------------------------------------------------------ C11
\* C11: a save of the in-memory set S whose write succeeds, followed by a
\* load, yields S; the save is a full rewrite, so that the file then holds
\* S and nothing it held before; and adding an identifier that is already
\* in S leaves S and the persisted set equal to S.
C11_SaveLoadRoundTrip ==
    [][/\ (lastOp'.name = "save" /\ lastOp'.outcome = "ok")
          => /\ FileIds(cacheFile') = cache
             /\ cache' = cache
       /\ (lastOp.name = "save" /\ lastOp.outcome = "ok"
           /\ lastOp'.name = "load")
          => cache' = cache
       /\ (lastOp'.name = "add" /\ lastOp'.outcome = "ok"
           /\ lastOp'.id \in cache)
          => /\ cache' = cache
             /\ FileIds(cacheFile') = cache]_vars

\* A load has followed a save of a set that is neither empty nor what the
\* file held at the start.
C11_Witness ==
    /\ lastOp.name = "load"
    /\ lastOp.afterSave
    /\ cache # {}
    /\ cache # IdPool

\* ------------------------------------------------------------------ C12
\* the names of the three sources, as os.path.basename gives them
SourceNames ==
    [inCache |-> { Basename(id) : id \in cache },
     inProcessedDirectory |-> { n \in processed : ~StartsWithDot(n) },
     inKnowledgeBase |-> { Basename(fp) : fp \in kb }]

\* C12: listDocuments() returns one descriptor for every valid name (not
\* empty, longer than one character, not hidden) that is the basename of a
\* cache identifier, a non-hidden file of the processed directory or the
\* basename of a file_path of the knowledge-base table, and no other; each
\* of its three flags is true exactly when the name is in that source.
C12_RegistryUnion ==
    lastOp.name = "listDocuments"
    => LET r == lastOp.result
           src == SourceNames
       IN  /\ DOMAIN r =
                { n \in src.inCache \cup src.inProcessedDirectory
                        \cup src.inKnowledgeBase :
                    Len(n) > 1 /\ n[1] # "." }
           /\ \A n \in DOMAIN r :
                 /\ r[n].in_cache <=> n \in src.inCache
                 /\ r[n].in_processed_dir <=> n \in src.inProcessedDirectory
                 /\ r[n].in_knowledge_base <=> n \in src.inKnowledgeBase

\* listDocuments() has returned descriptors with different flags, and has
\* left out a hidden file and a name of one character.
C12_Witness ==
    /\ lastOp.name = "listDocuments"
    /\ \E n, m \in DOMAIN lastOp.result :
          /\ lastOp.result[n].in_cache
          /\ ~lastOp.result[n].in_knowledge_base
          /\ lastOp.result[m].in_knowledge_base
          /\ ~lastOp.result[m].in_cache
    /\ <<".", "h">> \in processed
    /\ PathOf(OTHER_DIR, <<"b">>) \in kb

\* ------------------------------------------------------------------ C13
\* a name as C13 wants it
NormalName(n) ==
    /\ n # << >>
    /\ Len(n) > 1
    /\ n[1] # "."
    /\ \A i \in DOMAIN n : n[i] \notin {"/", "\\"}
    /\ \E v \in cache \cup processed \cup kb : n = CleanName(v)

\* C13: every name listDocuments() and listNames() return is the final
\* path component of its source value, in the case of the source, without
\* '/' and without a backslash, not empty, longer than one character and
\* not beginning with '.'.
C13_NamesNormalized ==
    /\ lastOp.name = "listNames"
       => \A i \in DOMAIN lastOp.result : NormalName(lastOp.result[i])
    /\ lastOp.name = "listDocuments"
       => \A n \in DOMAIN lastOp.result : NormalName(n)

\* ------------------------------------------------------------------ C14
\* C14: the names listNames() returns are the keys of listDocuments() on
\* the same stores, in ascending order and without duplicates.
C14_NamesAreKeys ==
    lastOp.name = "listNames"
    => LET names == lastOp.result IN
       /\ ListToSet(names) = DOMAIN DetailedInfo(cache, processed, kb)
       /\ \A i, j \in DOMAIN names : i < j => StrLess(names[i], names[j])

\* ------------------------------------------------------------------ C15
\* C15: listDocuments() and listNames() leave the cache, the cache file,
\* the two directories and the knowledge-base table as they were, and a
\* call that follows the same call at once returns what that one returned.
C15_RegistryReadOnly ==
    [][lastOp'.name \in {"listNames", "listDocuments"}
       => /\ UNCHANGED <<cache, cacheFile, pending, processed, kb>>
          /\ lastOp.name = lastOp'.name
             => lastOp'.result = lastOp.result]_vars

\* listNames() has returned names while the cache file does not hold what
\* the cache in memory holds.
C15_Witness ==
    /\ lastOp.name = "listNames"
    /\ lastOp.result # << >>
    /\ FileIds(cacheFile) # cache

\* ------------------------------------------------------------------ C16
\* C16: when remove_document removes the name N of a document processed
\* from the pending directory (its file is in the processed directory, its
\* pending path in the cache) and its storage operations succeed, the file
\* is back in the pending directory, no identifier that matches N is left
\* in the cache or in the cache file, and a process_document call for the
\* pending path without force_reprocess that follows is not skipped: it
\* invokes the pipeline.
C16_RemovalReversible ==
    [][/\ (lastOp'.name = "removeDocument" /\ lastOp'.clean)
          => \A N \in ListToSet(lastOp'.sel) :
                (N \in processed /\ PathOf(PENDING_DIR, N) \in cache)
                => /\ N \in pending'
                   /\ N \notin processed'
                   /\ \A id \in cache' \cup FileIds(cacheFile') :
                         ~Contains(id, N)
                   /\ FileIds(cacheFile') = cache'
       /\ (lastOp.name = "removeDocument" /\ lastOp.clean)
          => \A N \in ListToSet(lastOp.sel), c \in ApiTasks :
                (N \in pending /\ Called(c, PathOf(PENDING_DIR, N), FALSE))
                => Entered(c, PathOf(PENDING_DIR, N), FALSE)]_vars

\* A document processed from the pending directory has been removed, and
\* its file is in the pending directory again.
C16_Witness ==
    /\ lastOp.name = "removeDocument"
    /\ lastOp.clean
    /\ \E N \in ListToSet(lastOp.sel) :
          /\ N \in pending
          /\ N \in kb
          /\ PathOf(PENDING_DIR, N) \notin cache

\* ------------------------------------------------------------------ C17
\* C17: when remove_document removes the one name N, the identifiers that
\* leave the cache are those equal to N or with N as their final path
\* component, every other identifier stays, and every file of the
\* processed directory with another name stays.
C17_RemovesOnlyMatching ==
    [][(lastOp'.name = "removeDocument" /\ lastOp'.clean
        /\ Len(lastOp'.sel) = 1)
       => LET N == lastOp'.sel[1] IN
          /\ cache' \subseteq cache
          /\ cache \ cache' =
                { id \in cache : id = N \/ Basename(id) = N }
          /\ processed' \ {N} = processed \ {N}]_vars

\* ------------------------------------------------------------------ C18
\* C18: remove_document with an identifier no name of the registry
\* contains returns False and leaves the cache, the cache file and the two
\* directories as they were.
C18_NoMatchChangesNothing ==
    [][(lastOp'.name = "removeDocument" /\ lastOp'.matches = << >>)
       => /\ ~lastOp'.result
          /\ UNCHANGED <<cache, cacheFile, pending, processed, kb>>]_vars

\* remove_document has found no match although documents are listed.
C18_Witness ==
    /\ lastOp.name = "removeDocument"
    /\ lastOp.matches = << >>
    /\ ListNames(cache, processed, kb) # << >>

\* ------------------------------------------------------------------ C19
\* C19: after a confirmed remove_all_documents has returned True (here:
\* with every storage operation of it succeeding) the cache is empty in
\* memory and in the cache file, the knowledge-base table is empty, the
\* processed directory is empty and every file that was in it is in the
\* pending directory.
C19_FullReset ==
    [][(lastOp'.name = "removeAll" /\ lastOp'.confirmed /\ lastOp'.result
        /\ faults' = faults)
       => /\ cache' = {}
          /\ FileIds(cacheFile') = {}
          /\ kb' = {}
          /\ processed' = {}
          /\ processed \subseteq pending']_vars

\* ------------------------------------------------------------------ C20
\* C20: when the rmtree of the knowledge-base directory fails in a
\* confirmed remove_all_documents, the cache file is still cleared, every
\* file of the processed directory is still moved back to the pending
\* directory, and the call returns (True) instead of raising.
C20_StepsIndependent ==
    [][(lastOp'.name = "removeAll" /\ lastOp'.confirmed
        /\ ~lastOp'.rmtreeOk)
       => /\ lastOp'.result
          /\ FileIds(cacheFile') = {}
          /\ processed' = {}
          /\ processed \subseteq pending']_vars

\* ------------------------------------------------- robust_llm_func
\* What the language model returns is a text: a sequence of runs, each n
\* characters of one kind c.  A brace, a blank and a code fence are runs of
\* their own; "t" is prose without braces, blanks and fences; the other
\* kinds are the members an object can hold, written without their commas.
Run(c, n) == [c |-> c, n |-> n]
LBrace == Run("{", 1)
RBrace == Run("}", 1)
Space == Run(" ", 1)
Fence == Run("fence", 3)
Prose(n) == Run("t", n)

\* the value of a key of a record
Str(text) == [type |-> "str", text |-> text]
ListVal == [type |-> "list", text |-> << >>]
NumVal == [type |-> "num", text |-> << >>]
TrueVal == [type |-> "bool", text |-> << >>]

\* the members: their text, the key and the value json.loads gives them
Members ==
    { [run |-> Run("'description': 'x'", 18), key |-> "description",
       value |-> Str(<<Run("x", 1)>>)],
      [run |-> Run("'description': ''", 17), key |-> "description",
       value |-> Str(<< >>)],
      [run |-> Run("'entities': []", 14), key |-> "entities",
       value |-> ListVal],
      [run |-> Run("'entities': 3", 13), key |-> "entities",
       value |-> NumVal],
      [run |-> Run("'additional_notes': 'n'", 23),
       key |-> "additional_notes", value |-> Str(<<Run("n", 1)>>)],
      [run |-> Run("'k': 1", 6), key |-> "k", value |-> NumVal] }

MemberOf(r) == CHOOSE m \in Members : m.run = r
IsMember(r) == \E m \in Members : m.run = r
Member(key, type, text) ==
    (CHOOSE m \in Members :
        m.key = key /\ m.value.type = type /\ m.value.text = text).run

RECURSIVE TextLen(_)
\* len(s)
TextLen(s) == IF s = << >> THEN 0 ELSE Head(s).n + TextLen(Tail(s))

RECURSIVE Take(_, _)
\* s[:k]
Take(s, k) ==
    IF s = << >> \/ k <= 0 THEN << >>
    ELSE IF Head(s).n <= k THEN <<Head(s)>> \o Take(Tail(s), k - Head(s).n)
    ELSE <<Run(Head(s).c, k)>>

RECURSIVE LStrip(_)
LStrip(s) == IF s # << >> /\ Head(s) = Space THEN LStrip(Tail(s)) ELSE s

RECURSIVE RStrip(_)
RStrip(s) ==
    IF s # << >> /\ s[Len(s)] = Space
    THEN RStrip(SubSeq(s, 1, Len(s) - 1)) ELSE s

\* str.strip()
Strip(s) == RStrip(LStrip(s))

\* the first index from j on where s holds something else than a blank, or
\* Len(s) + 1
SkipSpace(s, j) ==
    IF \E i \in j..Len(s) : s[i] # Space
    THEN CHOOSE i \in j..Len(s) :
            s[i] # Space /\ \A h \in j..(i - 1) : s[h] = Space
    ELSE Len(s) + 1

\* line 207: the ends k of a block that opens with the fence at i: a brace
\* after the fence and blanks, then as little as possible up to a closing
\* brace that blanks and a fence follow
BlockEnds(s, i) ==
    LET j == SkipSpace(s, i + 1) IN
    IF s[i] = Fence /\ j <= Len(s) /\ s[j] = LBrace
    THEN { k \in (j + 1)..Len(s) :
            /\ s[k] = RBrace
            /\ SkipSpace(s, k + 1) <= Len(s)
            /\ s[SkipSpace(s, k + 1)] = Fence }
    ELSE {}

Least(S) == CHOOSE x \in S : \A y \in S : x <= y

\* lines 205-209: json_blocks[0], or the response when there is no block
AfterBlocks(s) ==
    LET starts == { i \in DOMAIN s : BlockEnds(s, i) # {} } IN
    IF starts = {} THEN s
    ELSE LET i == Least(starts) IN
         SubSeq(s, SkipSpace(s, i + 1), Least(BlockEnds(s, i)))

RECURSIVE ScanFrom(_, _)
\* line 216: where the match of json_pattern that has consumed s up to j - 1
\* ends, or 0: anything but a brace is consumed, an opening brace only with
\* a brace-free group and its closing brace
ScanFrom(s, j) ==
    IF j > Len(s) THEN 0
    ELSE IF s[j] = RBrace THEN j
    ELSE IF s[j] = LBrace
    THEN LET ks == { k \in (j + 1)..Len(s) : s[k] \in {LBrace, RBrace} } IN
         IF ks # {} /\ s[Least(ks)] = RBrace
         THEN ScanFrom(s, Least(ks) + 1) ELSE 0
    ELSE ScanFrom(s, j + 1)

RECURSIVE JsonSpans(_, _)
\* line 217: the places <<from, to>> of the matches of json_pattern in s
\* from index i on, left to right and without overlap
JsonSpans(s, i) ==
    IF i > Len(s) THEN << >>
    ELSE IF s[i] = LBrace /\ ScanFrom(s, i + 1) # 0
    THEN <<<<i, ScanFrom(s, i + 1)>>>> \o JsonSpans(s, ScanFrom(s, i + 1) + 1)
    ELSE JsonSpans(s, i + 1)

\* line 217: re.findall(json_pattern, response): the matched texts
JsonMatches(s) ==
    [i \in DOMAIN JsonSpans(s, 1) |->
        SubSeq(s, JsonSpans(s, 1)[i][1], JsonSpans(s, 1)[i][2])]

\* what is between the braces of a candidate
Inner(cand) == SubSeq(cand, 2, Len(cand) - 1)

\* line 225: json.loads succeeds on an object of members
JsonParses(cand) ==
    \A i \in DOMAIN Inner(cand) :
        Inner(cand)[i] = Space \/ IsMember(Inner(cand)[i])

RECURSIVE JsonMembers(_)
\* the record of a sequence of members; of two members with one key the
\* later one counts
JsonMembers(inner) ==
    IF inner = << >> THEN << >>
    ELSE IF inner[Len(inner)] = Space
    THEN JsonMembers(SubSeq(inner, 1, Len(inner) - 1))
    ELSE LET m == MemberOf(inner[Len(inner)]) IN
         (m.key :> m.value) @@ JsonMembers(SubSeq(inner, 1, Len(inner) - 1))

JsonLoads(cand) == JsonMembers(Inner(cand))

\* line 229: response.find(json_candidate)
Find(s, cand) ==
    Least({ i \in 1..(Len(s) - Len(cand) + 1) :
                SubSeq(s, i, i + Len(cand) - 1) = cand })

\* lines 223-234: the first candidate json.loads accepts, with the text
\* after the place find() gives it; 0 when there is none
FirstValid(s) ==
    LET ms == JsonMatches(s)
        good == { i \in DOMAIN ms : JsonParses(ms[i]) }
    IN  IF good = {} THEN [found |-> FALSE, cand |-> << >>, extra |-> << >>]
        ELSE LET cand == ms[Least(good)]
                 jsonEnd == Find(s, cand) + Len(cand) - 1
             IN  [found |-> TRUE, cand |-> cand,
                  extra |-> Strip(SubSeq(s, jsonEnd + 1, Len(s)))]

\* lines 241-263: the record built from a response without a valid object
Constructed(original) ==
    [description |-> Str(Take(original, 500)),
     entities |-> ListVal,
     analysis |-> Str(<<Run("Content processed with partial extraction", 41)>>),
     original_length |-> NumVal]

\* lines 266-268
WithNotes(rec, extra) ==
    IF extra # << >> /\ "additional_notes" \notin DOMAIN rec
    THEN ("additional_notes" :> Str(Take(extra, 200))) @@ rec
    ELSE rec

\* lines 271-275
WithRequired(rec, original) ==
    LET r == IF "description" \in DOMAIN rec THEN rec
             ELSE ("description" :> Str(Take(original, 200))) @@ rec
    IN  IF "entities" \in DOMAIN r THEN r
        ELSE ("entities" :> ListVal) @@ r

\* line 196
NoneRecord ==
    [description |->
        Str(<<Run("Content processed but no analysis available", 43)>>),
     entities |-> ListVal,
     content |-> Str(<<Run("Unable to process content", 25)>>)]

\* lines 286-291; content is str(response)[:300] when response is bound
ErrorRecord(bound, content) ==
    [description |-> Str(<<Run("Processing error occurred: ", 27)>>),
     entities |-> ListVal,
     error |-> TrueVal,
     original_content |->
        Str(IF bound THEN Take(content, 300)
            ELSE <<Run("No content available", 20)>>)]

\* line 280: len() of the entities raises on a value without a length
EntitiesLenRaises(rec) == rec["entities"].type \in {"num", "bool"}

\* what the model call gives: it raises, returns None or returns a text
Raises == [kind |-> "raise", text |-> << >>]
None == [kind |-> "none", text |-> << >>]
Text(s) == [kind |-> "str", text |-> s]

\* robust_llm_func: the record whose serialisation it returns; path names
\* the way through the function, cand the candidate that parsed, extra
\* the text after it.  When the model call of line 191 raises, the handler
\* of line 283 runs before the import of line 213 has bound the local name
\* json, and its json.dumps raises UnboundLocalError out of the function.
RobustLlmFunc(resp) ==
    LET original == Strip(resp.text)
        response == AfterBlocks(original)
        first == FirstValid(response)
        parsed == IF first.found THEN JsonLoads(first.cand)
                  ELSE Constructed(original)
        final == WithRequired(WithNotes(parsed, first.extra), original)
        none == [cand |-> << >>, extra |-> << >>]
    IN  IF resp.kind = "raise"
        THEN [path |-> "raises", raised |-> TRUE, record |-> << >>] @@ none
        ELSE IF resp.kind = "none"
        THEN [path |-> "none", raised |-> FALSE, record |-> NoneRecord]
             @@ none
        ELSE IF EntitiesLenRaises(final)
        THEN [path |-> "except", raised |-> FALSE,
              record |-> ErrorRecord(TRUE, response),
              cand |-> first.cand, extra |-> first.extra]
        ELSE [path |-> IF first.found THEN "parsed" ELSE "constructed",
              raised |-> FALSE,
              record |-> final, cand |-> first.cand, extra |-> first.extra]

\* the pieces responses are made of
Pieces ==
    { <<Space>>, <<Prose(250)>>, <<Fence>>, <<LBrace>>, <<RBrace>>,
      <<LBrace, RBrace>>,
      <<LBrace, LBrace, RBrace, RBrace>>,
      <<LBrace, Prose(1), RBrace>>,
      <<LBrace, Member("k", "num", << >>), RBrace>>,
      <<LBrace, Member("description", "str", <<Run("x", 1)>>), RBrace>>,
      <<LBrace, Member("description", "str", << >>), RBrace>>,
      <<LBrace, Member("entities", "list", << >>), RBrace>>,
      <<LBrace, Member("entities", "num", << >>), RBrace>>,
      <<LBrace, Member("additional_notes", "str", <<Run("n", 1)>>), RBrace>>,
      <<LBrace, Member("description", "str", <<Run("x", 1)>>),
        Member("entities", "list", << >>), RBrace>> }

MaxPieces == 3

RECURSIVE Texts(_)
\* the texts of at most k pieces
Texts(k) ==
    IF k = 0 THEN { << >> }
    ELSE Texts(k - 1) \cup { s \o p : s \in Texts(k - 1), p \in Pieces }

Responses == { Raises, None } \cup { Text(s) : s \in Texts(MaxPieces) }

\* the model call of line 191 has given resp
LlmReturned(resp) == [name |-> "llm", response |-> resp]

\* lines 193-291: the rest of robust_llm_func
CaptionCall ==
    /\ lastOp.name = "llm"
    /\ lastOp' = [name |-> "robust_llm_func", response |-> lastOp.response,
                  result |-> RobustLlmFunc(lastOp.response)]
    /\ lastReturn' = NoReturn
    /\ UNCHANGED <<pending, processed, cache, cacheFile, kb, calls, batch,
                   okMem, okDisk, ingested, faults>>

InitCaption ==
    /\ pending = {}
    /\ processed = {}
    /\ cache = {}
    /\ cacheFile = NoFile
    /\ kb = {}
    /\ calls = [c \in Callers |-> Idle]
    /\ batch = BatchIdle
    /\ lastReturn = NoReturn
    /\ okMem = {}
    /\ okDisk = {}
    /\ ingested = {}
    /\ faults = 0
    /\ lastOp \in { LlmReturned(r) : r \in Responses }

NextCaption == CaptionCall

SpecCaption == InitCaption /\ [][NextCaption]_vars

\* ------------------------------------------------------------------ C21
\* C21: whatever the model call returns (the empty text, a text without an
\* object that parses, an object followed by prose, ...), robust_llm_func
\* does not raise and returns a record with a description that is a non-empty string and with
\* an entities key.
C21_TotalCoverage ==
    (lastOp.name = "robust_llm_func" /\ lastOp.response.kind # "raise")
    => LET rec == lastOp.result.record IN
       /\ ~lastOp.result.raised
       /\ "description" \in DOMAIN rec
       /\ rec["description"].type = "str"
       /\ rec["description"].text # << >>
       /\ "entities" \in DOMAIN rec

\* ------------------------------------------------------------------ C30
\* the first match of json_pattern, left to right, that json.loads accepts
FirstParsedSpan(s) ==
    LET spans == JsonSpans(s, 1)
        good == { i \in DOMAIN spans :
                    JsonParses(SubSeq(s, spans[i][1], spans[i][2])) }
    IN  IF good = {} THEN <<0, 0>> ELSE spans[Least(good)]

\* C30: when a candidate of the response parses, the record returned holds
\* every key of the first such candidate with its value; it holds no other
\* key but description, entities and additional_notes; and
\* additional_notes, when the candidate has none, is there exactly when
\* text follows the candidate, and is then the first 200 characters of
\* that text.
C30_KeepsParsedContent ==
    (lastOp.name = "robust_llm_func" /\ lastOp.response.kind = "str")
    => LET s == AfterBlocks(Strip(lastOp.response.text))
           span == FirstParsedSpan(s)
           parsed == JsonLoads(SubSeq(s, span[1], span[2]))
           following == Strip(SubSeq(s, span[2] + 1, Len(s)))
           rec == lastOp.result.record
       IN  span # <<0, 0>>
           => /\ \A k \in DOMAIN parsed : k \in DOMAIN rec /\ rec[k] = parsed[k]
              /\ DOMAIN rec \subseteq
                    DOMAIN parsed \cup
                        {"description", "entities", "additional_notes"}
              /\ "additional_notes" \notin DOMAIN parsed
                 => /\ "additional_notes" \in DOMAIN rec <=> following # << >>
                    /\ "additional_notes" \in DOMAIN rec
                       => /\ rec["additional_notes"] = Str(Take(following, 200))
                          /\ TextLen(rec["additional_notes"].text) <= 200

\* ------------------------------------------------------------------ C22
\* how often x occurs in the list q
Count(q, x) == Cardinality({ i \in DOMAIN q : q[i] = x })

\* Caller c is in the pipeline for a path without force_reprocess, and so
\* is another caller for the same path, or another caller was when it
\* returned True in the step before.
Overlapped(c) ==
    /\ calls[c].st = "pipeline"
    /\ ~calls[c].force
    /\ \/ \E d \in ApiTasks \ {c} :
            /\ calls[d].st = "pipeline"
            /\ calls[d].path = calls[c].path
            /\ ~calls[d].force
       \/ /\ lastReturn.outcome = "ok"
          /\ lastReturn.path = calls[c].path
          /\ ~lastReturn.force

\* C22: two process_document calls for one uncached path can both be in
\* the pipeline at once (the witness); when the pipeline of such a call
\* succeeds and its save and rename do not fail, the call returns True, be
\* it the first or the second of the two to return, and the identifier is
\* then in the cache, and in the cache file exactly once.
C22_BothRunBothTrue ==
    [][\A c \in ApiTasks :
        (Overlapped(c) /\ PipelineOver(c) /\ lastReturn'.outcome # "raised"
         /\ faults' = faults)
        => /\ lastReturn'.result
           /\ lastReturn'.path \in cache'
           /\ Count(cacheFile'.ids, lastReturn'.path) = 1]_vars

\* Two calls without force_reprocess were in the pipeline for one path of
\* the pending directory at once; the first has returned True and moved the
\* file, the second is still in the pipeline.
C22_Witness ==
    /\ lastReturn.result
    /\ ~lastReturn.force
    /\ Parent(lastReturn.path) = PENDING_DIR
    /\ Basename(lastReturn.path) \in processed
    /\ \E c \in ApiTasks : Overlapped(c) /\ calls[c].path = lastReturn.path

\* ------------------------------------------------------------------ C23
\* In this step the pipeline of caller c has succeeded, its save of the
\* cache file too, and its rename of the file has raised.
RenameFailed(c) ==
    /\ PipelineOver(c)
    /\ lastReturn'.saved
    /\ faults' # faults

\* C23: when the rename from the pending to the processed directory fails
\* after a pipeline run that succeeded, process_document returns False,
\* the identifier is in the cache and in the cache file, and the file is
\* still in the pending directory.
C23_RenameFailureLeavesCached ==
    [][\A c \in ApiTasks :
        RenameFailed(c)
        => LET p == lastReturn'.path IN
           /\ ~lastReturn'.result
           /\ p \in cache'
           /\ p \in FileIds(cacheFile')
           /\ Parent(p) = PENDING_DIR
           /\ Basename(p) \in pending'
           /\ UNCHANGED <<pending, processed>>]_vars

\* A call has returned False after a failing rename: its path is cached
\* and persisted, its file is in the pending directory and not in the
\* processed directory.
C23_Witness ==
    /\ lastReturn.outcome = "renamefail"
    /\ ~lastReturn.result
    /\ lastReturn.path \in cache
    /\ lastReturn.path \in FileIds(cacheFile)
    /\ Basename(lastReturn.path) \in pending
    /\ Basename(lastReturn.path) \notin processed

\* ------------------------------------------------------------------ C24
\* C24: a load of a cache file that is missing or that json.load raises on
\* gives the empty set; and when the save of the cache file fails after a
\* pipeline run that succeeded, process_document returns True all the same
\* (the rename not failing), with the identifier in the cache in memory,
\* where it stays until it is removed or a new session loads the file.
C24_CacheFaultsSwallowed ==
    [][/\ (lastOp'.name = "load" /\ cacheFile.st \in {"missing", "corrupt"})
          => cache' = {}
       /\ \A c \in ApiTasks :
            (PipelineOver(c) /\ lastReturn'.outcome = "ok"
             /\ ~lastReturn'.saved)
            => /\ lastReturn'.result
               /\ lastReturn'.path \in cache'
       /\ \A id \in cache \ cache' :
            lastOp'.name \in {"load", "removeDocument", "removeAll"}]_vars

\* A call has returned True although its save failed: its path is in the
\* cache in memory and not in the cache file.
C24_Witness ==
    /\ lastReturn.result
    /\ ~lastReturn.saved
    /\ lastReturn.path \in cache
    /\ lastReturn.path \notin FileIds(cacheFile)

\* ------------------------------------------------------------------ C28
\* C28 as stated, for the call that returns last: when a process_document
\* call returns True and no other call is in flight, its identifier is in
\* the cache file.
C28_NoLostUpdate ==
    [][\A c \in ApiTasks :
        (PipelineOver(c) /\ lastReturn'.result
         /\ \A d \in ApiTasks : calls'[d].st = "idle")
        => lastReturn'.path \in FileIds(cacheFile')]_vars

\* C28 as amended: however the calls interleave, no step takes an
\* identifier out of the cache in memory, a call whose pipeline succeeded
\* has put its identifier there, and after a call whose save succeeded the
\* cache file holds what the cache in memory holds, the identifiers of all
\* calls that have returned True so far among it.
C28_NoLostUpdateInMemory ==
    [][/\ cache \subseteq cache'
       /\ \A c \in ApiTasks :
            (PipelineOver(c) /\ lastReturn'.outcome # "raised")
            => /\ lastReturn'.path \in cache'
               /\ lastReturn'.saved => FileIds(cacheFile') = cache']_vars

\* A call has returned True and saved the cache while a call for another
\* path, begun before, is still in the pipeline; the cache file holds the
\* identifier of an earlier call as well.
C28_Witness ==
    /\ lastReturn.result
    /\ lastReturn.saved
    /\ \E c \in ApiTasks :
          /\ calls[c].st = "pipeline"
          /\ calls[c].path # lastReturn.path
          /\ calls[c].path \notin cache
    /\ \E id \in FileIds(cacheFile) : id # lastReturn.path

\* ------------------------------------------------------------------ C26
\* In this step process_document returns from the pipeline, or
\* remove_document or remove_all_documents runs.
OrchestratorStep ==
    \/ \E c \in ApiTasks : PipelineOver(c)
    \/ lastOp'.name \in {"removeDocument", "removeAll"}

\* C26: no step of process_document, remove_document or
\* remove_all_documents, failing or not, leaves a file in both directories
\* that was not in both before, and none takes a file out of both.
C26_ExactlyOneDirectory ==
    [][OrchestratorStep
       => /\ (pending' \cap processed') \subseteq (pending \cap processed)
          /\ (pending \cup processed) \subseteq (pending' \cup processed')]_vars

\* ------------------------------------------------------------------ C27
\* the identifiers C17 and C27 call matching for the name N
MatchingIds(ids, N) == { id \in ids : id = N \/ Basename(id) = N }

\* C27: remove_document returns True only when, for every selected name,
\* no matching identifier is left in the cache or in the cache file and the
\* file of that name, if the processed directory held one, is in the
\* pending directory; and when the move of a file back to the pending
\* directory fails, it returns False and the cache is as it was.
C27_ReportsOutcome ==
    [][lastOp'.name = "removeDocument"
       => /\ lastOp'.result
             => \A N \in ListToSet(lastOp'.sel) :
                  /\ MatchingIds(cache' \cup FileIds(cacheFile'), N) = {}
                  /\ N \in processed => (N \notin processed' /\ N \in pending')
          /\ (\E N \in ListToSet(lastOp'.sel) :
                N \in processed /\ N \in processed')
             => /\ ~lastOp'.result
                /\ cache' = cache]_vars


\* ------------------------------------------- the knowledge-base table file
\* kv_store_full_docs.json as a registry call finds it: absent, not JSON,
\* JSON that is not a mapping, or a mapping whose records come in the
\* order of the file. A record is a mapping with a string file_path
\* ("path"), a mapping whose file_path is not a string ("nonstring"), or
\* anything the test of line 256 / 411 skips ("skipped").
MaxRecords == 2

TableRecords ==
    { [kind |-> "path", fp |-> fp] : fp \in KbPool }
      \cup { [kind |-> "nonstring"], [kind |-> "skipped"] }

RecordLists(k) == UNION { [1..n -> TableRecords] : n \in 0..k }

TableFiles ==
    { [st |-> "missing"], [st |-> "invalid"], [st |-> "notmapping"] }
      \cup { [st |-> "ok", records |-> r] : r \in RecordLists(MaxRecords) }

\* os.path.basename raises TypeError on the first file_path that is not a
\* string; the records before it have been read by then
RaisesAt(records) ==
    { i \in 1..Len(records) : records[i].kind = "nonstring" }

\* lines 250-260 and 402-416: the file_path values the loop reaches before
\* the except clause ends it; exists(), json.load and items() come first
TablePaths(file) ==
    IF file.st # "ok" THEN {}
    ELSE { file.records[i].fp :
             i \in { j \in 1..Len(file.records) :
                       /\ file.records[j].kind = "path"
                       /\ \A k \in RaisesAt(file.records) : j < k } }

\* a call of _get_processed_documents_list that finds the table file f
ListNamesOfTable ==
    \E f \in TableFiles :
        /\ EventLoopFree
        /\ lastOp' = [name |-> "listNamesOfTable", file |-> f,
                      result |-> ListNames(cache, processed, TablePaths(f))]
        /\ lastReturn' = NoReturn
        /\ batch' = Settle(batch)
        /\ UNCHANGED <<pending, processed, cache, cacheFile, kb, calls, okMem,
                       okDisk, ingested, faults>>

\* a call of _get_detailed_documents_info that finds the table file f
ListDocumentsOfTable ==
    \E f \in TableFiles :
        /\ EventLoopFree
        /\ lastOp' = [name |-> "listDocumentsOfTable", file |-> f,
                      result |-> DetailedInfo(cache, processed, TablePaths(f))]
        /\ lastReturn' = NoReturn
        /\ batch' = Settle(batch)
        /\ UNCHANGED <<pending, processed, cache, cacheFile, kb, calls, okMem,
                       okDisk, ingested, faults>>

\* The registry on stores that earlier sessions have left behind; the table
\* file is what each call finds on disk.
InitTable ==
    /\ pending = {}
    /\ processed \in SUBSET DirPool
    /\ cache \in SUBSET IdPool
    /\ cacheFile = SaveCache(NoFile, cache, "ok")
    /\ kb = {}
    /\ calls = [c \in Callers |-> Idle]
    /\ batch = BatchIdle
    /\ lastReturn = NoReturn
    /\ okMem = cache
    /\ okDisk = FileIds(cacheFile)
    /\ ingested = cache
    /\ faults = 0
    /\ lastOp = NoOp

NextTable ==
    \/ ListNamesOfTable
    \/ ListDocumentsOfTable

SpecTable == InitTable /\ [][NextTable]_vars

\* the table file is absent, is not JSON, is not a mapping, or holds a
\* record whose file_path is not a string
Malformed(file) == file.st # "ok" \/ RaisesAt(file.records) # {}

\* C25: when the table file is absent, is not valid JSON, is not a mapping
\* or holds a record whose file_path is not a string, the two registry
\* calls return what they return for an empty table: no name comes from the
\* knowledge base (no descriptor has in_knowledge_base true), and the names
\* of the cache and of the processed directory are all there.
C25_MalformedTableIsEmpty ==
    /\ (lastOp.name = "listNamesOfTable" /\ Malformed(lastOp.file))
          => lastOp.result = ListNames(cache, processed, {})
    /\ (lastOp.name = "listDocumentsOfTable" /\ Malformed(lastOp.file))
          => /\ lastOp.result = DetailedInfo(cache, processed, {})
             /\ \A n \in DOMAIN lastOp.result :
                  ~lastOp.result[n].in_knowledge_base


\* ------------------------------------------------- batches run repeatedly
\* process_pending_documents() with force_reprocess left at its default
ProcessPendingStartNoForce ==
    /\ ProcessPendingStart
    /\ ~batch'.force

\* the pipeline run of the batch for the file named n ends without raising
PipelineSucceeds(n) ==
    /\ ProcessPendingReturn
    /\ calls["batch"].path = PathOf(PENDING_DIR, n)
    /\ lastReturn'.outcome # "raised"

\* One session in which files are uploaded and the batch is run again and
\* again without force.
NextRetry ==
    \/ Upload
    \/ ProcessPendingStartNoForce
    \/ ProcessPendingNext
    \/ ProcessPendingReturn
    \/ ProcessPendingEnd

\* The batch is started again whenever it is over, its loop goes on, every
\* pipeline run ends, and a file whose pipeline is run again and again has
\* a run that does not raise.
FairRetry ==
    /\ WF_vars(ProcessPendingStartNoForce)
    /\ WF_vars(ProcessPendingNext)
    /\ WF_vars(ProcessPendingReturn)
    /\ WF_vars(ProcessPendingEnd)
    /\ \A n \in Names : SF_vars(PipelineSucceeds(n))

SpecRetry == Init /\ [][NextRetry]_vars /\ FairRetry

\* the file named n waits in the pending directory and is not cached
AwaitsProcessing(n) ==
    n \in pending /\ PathOf(PENDING_DIR, n) \notin cache

\* the file named n is cached and in the processed directory
Completed(n) ==
    PathOf(PENDING_DIR, n) \in cache /\ n \in processed

\* C29: when the batch is run again and again without force and the
\* pipeline eventually succeeds for a file, every file that is in the
\* pending directory with its path not cached is eventually cached and in
\* the processed directory.
C29_RetryLiveness ==
    \A n \in Names : AwaitsProcessing(n) ~> Completed(n)

====
